---- MODULE Spec2Model ----
(***************************************************************************)
(* Model of build_installer.py (brandon-wick/dotfiles,                     *)
(* .custom_commands/build_installer): the build locator (get_build_info),  *)
(* the bundle resolver (get_bundle_name), the display form of a build      *)
(* (format_buildID) and the install workflow of main().                    *)
(*                                                                         *)
(* Python strings whose characters the code inspects (build ids, the       *)
(* manifest version.txt) are sequences of one-character strings.  Strings  *)
(* the code only compares or concatenates (headers, platform markers,      *)
(* file names) are TLA+ strings.                                           *)
(***************************************************************************)
EXTENDS Integers, Sequences, FiniteSets, TLC

VARIABLES
    sys_platform,   \* sys.platform: "win32", "darwin" or "linux"
    bundle_type,    \* args.bundle_type
    knime,          \* args.knime
    download_only,  \* args.download_only
    release,        \* main's local `release` (None until resolved)
    events,         \* events_result["items"] of the calendar query
    listing,        \* the build ids of the release's catalog page, raw order
    pages,          \* the per-build catalog page of every listed build
    install_dir,    \* the directory local_install_dir on disk
    bundle_file,    \* the file at bundle_path on disk
    builds_list,    \* get_build_info's local builds_list
    idx,            \* position of get_build_info's for loop (1-based)
    latest_build,   \* get_build_info's / main's latest_build
    bundle_name,    \* get_build_info's / main's bundle_name
    local_version,  \* main's local_version: what it read from version.txt
    local_state,    \* the branch main took at the local installation check
    pc,             \* the statement of main (or get_build_info) to run next
    exc,            \* the exception that ended the run, or NoExc
    trace,          \* the operations with outside effect performed so far
    fmt_in,         \* argument of a direct format_buildID call
    fmt_out,        \* its return value
    argv_release,   \* the --release values typed on the command line: <<>>
                    \* without the option, <<value>> with it
    mounted,        \* the volumes hdiutil has attached and not detached
    mount_point,    \* mount_dmg's local mount_point
    license_dir     \* the directory licenses of the installation

vars == <<sys_platform, bundle_type, knime, download_only, release, events,
          listing, pages, install_dir, bundle_file, builds_list, idx,
          latest_build, bundle_name, local_version, local_state, pc, exc,
          trace, fmt_in, fmt_out, argv_release, mounted, mount_point,
          license_dir>>

\* The command line and the servers' contents: no step changes them.
inputs == <<sys_platform, bundle_type, knime, download_only, events, listing,
            pages, argv_release>>

\* The local variables of get_build_info and of main.
locals == <<builds_list, idx, latest_build, bundle_name, local_version,
            local_state>>

disk == <<install_dir, bundle_file, license_dir>>

fmt == <<fmt_in, fmt_out>>

\* The disk images attached by mount_dmg.
mount == <<mounted, mount_point>>

\* ------------------------------------------------------------------ bounds

\* Longest catalog listing explored for the build locator alone.
MaxBuilds == 3

\* Longest catalog listing explored for the whole workflow of main().
MaxMainBuilds == 1

\* ------------------------------------------------------- Python values

None == "None"
NoExc == "none"
Unbound == <<>>

Ret(v) == [raised |-> FALSE, value |-> v, exc |-> NoExc]
Raise(e) == [raised |-> TRUE, value |-> None, exc |-> e]

\* Python truthiness of a str-or-None value: None and "" are false.
Truthy(v) == v # None /\ v # ""

\* ---------------------------------------------------- character strings

Digits == <<"0", "1", "2", "3", "4", "5", "6", "7", "8", "9">>

DigitSet == {Digits[i] : i \in 1..10}

DigitVal(c) == (CHOOSE i \in 1..10 : Digits[i] = c) - 1

\* int(s) for a string of decimal digits.
RECURSIVE PyInt(_)
PyInt(s) ==
    IF Len(s) = 0 THEN 0
    ELSE 10 * PyInt(SubSeq(s, 1, Len(s) - 1)) + DigitVal(s[Len(s)])

\* s[a:b] with 0-based, end-exclusive Python indices (0 <= a <= b).
Slice(s, a, b) == SubSeq(s, a + 1, IF b < Len(s) THEN b ELSE Len(s))

LowerCase == <<"b", "u", "i", "l", "d">>
UpperCase == <<"B", "U", "I", "L", "D">>

Upper(c) == IF \E i \in 1..5 : LowerCase[i] = c
            THEN UpperCase[CHOOSE i \in 1..5 : LowerCase[i] = c]
            ELSE c

Lower(c) == IF \E i \in 1..5 : UpperCase[i] = c
            THEN LowerCase[CHOOSE i \in 1..5 : UpperCase[i] = c]
            ELSE c

\* str.capitalize(): first character upper case, the rest lower case.
Capitalize(s) == [i \in 1..Len(s) |-> IF i = 1 THEN Upper(s[i]) ELSE Lower(s[i])]

\* str.replace(a, b) for one-character a and b.
Replace(s, a, b) == [i \in 1..Len(s) |-> IF s[i] = a THEN b ELSE s[i]]

\* needle in hay (Python substring test).
Contains(hay, needle) ==
    \E i \in 0..(Len(hay) - Len(needle)) :
        SubSeq(hay, i + 1, i + Len(needle)) = needle

\* The characters of s at the 0-based positions below n other than skip,
\* in order (the loop of format_buildID).
RECURSIVE DropIndex(_, _, _)
DropIndex(s, n, skip) ==
    IF n = 0 THEN <<>>
    ELSE IF n - 1 = skip THEN DropIndex(s, n - 1, skip)
    ELSE Append(DropIndex(s, n - 1, skip), s[n])

BuildPrefix == <<"b", "u", "i", "l", "d", "-">>

MkBuildId(a, b, c) == BuildPrefix \o <<Digits[a + 1], Digits[b + 1], Digits[c + 1]>>

\* int(build_id[6:9])
BuildNum(build_id) == PyInt(Slice(build_id, 6, 9))

\* ------------------------------------------------------- format_buildID

format_buildID_KeepZero(build_id) == Replace(Capitalize(build_id), "-", " ")

format_buildID(build_id) ==
    LET format1 == Replace(Capitalize(build_id), "-", " ")
        dropped == IF PyInt(<<format1[7]>>) = 0
                   THEN DropIndex(format1, Len(build_id), 6)
                   ELSE <<>>
    IN  IF dropped = <<>> THEN format1 ELSE dropped

\* ------------------------------------------------------ the build site

\* A link <a href=...>text</a>: the words of its text, and its href as
\* path segments separated by "/" tokens.
Link(text, file) ==
    [text |-> text, href |-> <<"/", "download", "/", file>>]

\* The words of a link's text contain filter_ (filter_ in tag.text).
InText(filter_, text) == \E i \in 1..Len(text) : text[i] = filter_

\* An h3 header and the list (its next sibling) of links under it.
Section(h3, ul) == [h3 |-> h3, ul |-> ul]

InstallerLinks(kind, file) ==
    <<Link(<<kind, "Linux">>, file \o "_Linux.tar.gz"),
      Link(<<kind, "MacOSX", "KNIME">>, file \o "_MacOSX_KNIME.dmg"),
      Link(<<kind, "MacOSX">>, file \o "_MacOSX.dmg"),
      Link(<<kind, "Windows">>, file \o "_Windows.zip")>>

\* A build with every bundle published.
PageFull ==
    [status |-> "ok",
     sections |->
        <<Section("Academic Installers",
                  <<Link(<<"Academic", "Linux">>, "Academic_Linux.tar.gz"),
                    Link(<<"Academic", "MacOSX">>, "Academic_MacOSX.dmg"),
                    Link(<<"Academic", "Windows">>, "Academic_Windows.zip"),
                    Link(<<"DESRES", "Linux">>, "DESRES_Linux.tar.gz"),
                    Link(<<"DESRES", "MacOSX">>, "DESRES_MacOSX.dmg")>>),
          Section("General Installers", InstallerLinks("General", "General")),
          Section("Advanced Installers", InstallerLinks("Advanced", "Advanced"))>>]

\* A build whose bundles are only partly published: no Advanced section,
\* an Academic section without Linux or MacOSX links, a General section
\* with a single MacOSX link.
PageLagging ==
    [status |-> "ok",
     sections |->
        <<Section("Academic Installers",
                  <<Link(<<"Academic", "Windows">>, "Academic_Windows.zip")>>),
          Section("General Installers",
                  <<Link(<<"General", "Linux">>, "General_Linux.tar.gz"),
                    Link(<<"General", "MacOSX">>, "General_MacOSX.dmg"),
                    Link(<<"General", "Windows">>, "General_Windows.zip")>>)>>]

\* A build page without any installer section.
PageBare == [status |-> "ok", sections |-> <<>>]

\* A build page the server answers with an error status.
PageDown == [status |-> "error", sections |-> <<>>]

PageKinds == {PageFull, PageLagging, PageBare, PageDown}

\* ------------------------------------------------------ get_bundle_name

BundleTypes == {"academic", "general", "advanced", "desres"}

\* bundle_type.capitalize()
CapitalizeBundle(b) ==
    CASE b = "academic" -> "Academic"
      [] b = "general"  -> "General"
      [] b = "advanced" -> "Advanced"
      [] b = "desres"   -> "Desres"

\* soup.find('h3', text=...): the first matching section, 0 if none.
FindHeader(sections, text) ==
    IF \E i \in 1..Len(sections) : sections[i].h3 = text
    THEN CHOOSE i \in 1..Len(sections) :
            /\ sections[i].h3 = text
            /\ \A j \in 1..(i - 1) : sections[j].h3 # text
    ELSE 0

\* installers.find_all(lambda tag: tag.name == 'a' and filter_ in tag.text)
RECURSIVE FilterLinks(_, _)
FilterLinks(ul, filter_) ==
    IF Len(ul) = 0 THEN <<>>
    ELSE LET rest == FilterLinks(Tail(ul), filter_)
         IN  IF InText(filter_, Head(ul).text) THEN <<Head(ul)>> \o rest ELSE rest

\* href.split('/')[-1]: the tokens after the last "/".
RECURSIVE LastSegment(_)
LastSegment(href) ==
    IF Len(href) = 0 THEN ""
    ELSE IF href[Len(href)] = "/" THEN ""
    ELSE LastSegment(SubSeq(href, 1, Len(href) - 1)) \o href[Len(href)]

PickIndex_First(platform, knime_, bundle) == 1

\* The index (1-based) get_bundle_name takes from the filtered links.
PickIndex(platform, knime_, bundle) ==
    IF platform = "MacOSX" /\ ~knime_ /\ bundle # "academic" THEN 2 ELSE 1

\* The section header and the link filter for a bundle type.
HeaderOf(bundle) ==
    IF bundle = "desres" THEN "Academic" ELSE CapitalizeBundle(bundle)

FilterOf_Platform(bundle, platform) == platform

FilterOf(bundle, platform) ==
    IF bundle = "desres" THEN "DESRES" ELSE platform

get_bundle_name(page, bundle, platform, knime_) ==
    IF page.status # "ok" THEN Raise("HTTPError")
    ELSE LET h == FindHeader(page.sections, HeaderOf(bundle) \o " Installers")
         IN  IF h = 0 THEN Ret(None)
             ELSE LET installers ==
                          FilterLinks(page.sections[h].ul, FilterOf(bundle, platform))
                      k == PickIndex(platform, knime_, bundle)
                  IN  IF Len(installers) = 0 THEN Ret(None)
                      ELSE IF k > Len(installers) THEN Raise("IndexError")
                      ELSE Ret(LastSegment(installers[k].href))

\* ------------------------------------------------------------- inputs

\* The values of sys.platform main knows an installation directory for
\* (lines 767-773).
Platforms == {"win32", "darwin", "linux"}

\* The build ids that appear in catalog listings.
BuildIds == {MkBuildId(0, 0, 3), MkBuildId(0, 4, 9), MkBuildId(0, 5, 0),
             MkBuildId(1, 4, 2)}

\* The sequences over S without repetition, of length at most n.
DistinctSeqs(S, n) ==
    {s \in UNION {[1..k -> S] : k \in 0..n} :
        \A i, j \in 1..Len(s) : i # j => s[i] # s[j]}

Range(s) == {s[i] : i \in 1..Len(s)}

\* The combinations of bundle type, platform and --knime that parse_args
\* lets through.
ArgsAccepted(platform_, bundle, knime_) ==
    /\ ~(knime_ /\ bundle \in {"desres", "academic"})
    /\ ~(knime_ /\ platform_ # "darwin")

Release20242 == <<"2", "0", "2", "4", "-", "2">>

\* The same release as the user types it: --release 24-2
Typed242 == <<"2", "4", "-", "2">>

\* A calendar event title "24-2 Release Target", abridged.
Summary242 == <<"2", "4", "-", "2", " ", "R", "T">>

NoRelease == <<>>

\* The directory licenses of an installation when there is none.
NoLicenses == [exists |-> FALSE, files |-> {}]

\* The installation directory: absent, or the files it holds.
AbsentDir == [exists |-> FALSE, files |-> {}, has_manifest |-> FALSE,
              manifest |-> <<>>]

\* ------------------------------------------------------- get_build_info

\* The platform marker get_build_info derives from sys.platform.
PlatformOf(p) ==
    IF p = "win32" THEN "Windows"
    ELSE IF p = "darwin" THEN "MacOSX"
    ELSE "Linux"

\* all_uls[1].text.split('\n'): one line per list item, indented, between
\* the blank lines the list's own line breaks leave.
ListingLines(ids) ==
    <<<<>>>> \o [i \in 1..Len(ids) |-> <<" ">> \o ids[i]] \o <<<<>>>>

\* str.strip() of spaces.
RECURSIVE Strip(_)
Strip(s) ==
    IF Len(s) = 0 THEN s
    ELSE IF s[1] = " " THEN Strip(Tail(s))
    ELSE IF s[Len(s)] = " " THEN Strip(SubSeq(s, 1, Len(s) - 1))
    ELSE s

\* [id.strip() for id in builds_list if 'build' in id]
RECURSIVE BuildLines(_)
BuildLines(lines) ==
    IF Len(lines) = 0 THEN <<>>
    ELSE LET rest == BuildLines(Tail(lines))
         IN  IF Contains(Head(lines), <<"b", "u", "i", "l", "d">>)
             THEN <<Strip(Head(lines))>> \o rest
             ELSE rest

\* builds_list[::-1]
Reverse(s) == [i \in 1..Len(s) |-> s[Len(s) + 1 - i]]

ArrangeLatestFirst_Keep(bl) == bl

\* Lines 443-444: the listing is reversed when its last build is newer
\* than its first.
ArrangeLatestFirst(bl) ==
    IF BuildNum(bl[Len(bl)]) > BuildNum(bl[1]) THEN Reverse(bl) ELSE bl

Ev(op, build) == [op |-> op, build |-> build]

\* Lines 433-444: fetch and parse the listing of the release.
GetBuildInfoFetch ==
    /\ pc = "get_build_info"
    /\ LET bl == BuildLines(ListingLines(listing))
       IN  IF Len(bl) = 0
           THEN /\ pc' = "raised"
                /\ exc' = "IndexError"
                /\ UNCHANGED <<builds_list, idx>>
           ELSE /\ builds_list' = ArrangeLatestFirst(bl)
                /\ idx' = 1
                /\ pc' = "scan"
                /\ exc' = exc
    /\ UNCHANGED <<inputs, mount, release, disk, latest_build, bundle_name,
                   local_version, local_state, trace, fmt>>

\* Lines 450-458: one iteration of the scan, the request for the build's
\* page included; the break or the end of the list returns.
GetBuildInfoScan ==
    /\ pc = "scan"
    /\ idx <= Len(builds_list)
    /\ LET build_page == builds_list[idx]
           r == get_bundle_name(pages[build_page], bundle_type,
                                PlatformOf(sys_platform), knime)
       IN  /\ trace' = Append(trace, Ev("get_bundle_name", build_page))
           /\ IF r.raised
              THEN /\ pc' = "raised"
                   /\ exc' = r.exc
                   /\ UNCHANGED <<bundle_name, latest_build, idx>>
              ELSE /\ bundle_name' = r.value
                   /\ latest_build' = build_page
                   /\ exc' = exc
                   /\ IF Truthy(r.value) \/ idx = Len(builds_list)
                      THEN pc' = "located" /\ idx' = idx
                      ELSE pc' = "scan" /\ idx' = idx + 1
    /\ UNCHANGED <<inputs, mount, release, disk, builds_list, local_version,
                   local_state, fmt>>

\* No local variable of main or get_build_info is bound when a run starts.
InitLocals ==
    /\ builds_list = <<>>
    /\ idx = 0
    /\ latest_build = Unbound
    /\ bundle_name = None
    /\ local_version = <<>>
    /\ local_state = "unchecked"
    /\ exc = NoExc
    /\ trace = <<>>
    /\ mounted = {}
    /\ mount_point = Unbound

\* The build locator on its own: any listing of up to MaxBuilds builds.
InitLocate ==
    /\ sys_platform \in Platforms
    /\ bundle_type \in BundleTypes
    /\ knime \in BOOLEAN
    /\ ArgsAccepted(sys_platform, bundle_type, knime)
    /\ download_only = FALSE
    /\ release = Release20242
    /\ argv_release = <<Typed242>>
    /\ events = <<>>
    /\ listing \in DistinctSeqs(BuildIds, MaxBuilds)
    /\ pages \in [Range(listing) -> PageKinds]
    /\ install_dir = AbsentDir
    /\ bundle_file = "none"
    /\ license_dir = NoLicenses
    /\ InitLocals
    /\ pc = "get_build_info"
    /\ fmt_in = <<>>
    /\ fmt_out = <<>>

NextLocate == GetBuildInfoFetch \/ GetBuildInfoScan

SpecLocate == InitLocate /\ [][NextLocate]_vars

\* ------------------------------------------------------------------ main

\* Lines 335-341, reached with valid credentials: the release named by the
\* first event, "20" + summary[:4]; an empty list fails at the [0] of
\* line 335, before the test of line 337.
get_current_release(items) ==
    IF Len(items) = 0 THEN Raise("IndexError")
    ELSE [raised |-> FALSE, value |-> <<"2", "0">> \o Slice(items[1], 0, 4),
          exc |-> NoExc]

\* Lines 755-757: the release of the command line, or the calendar's.
ResolveRelease ==
    /\ pc = "start"
    /\ IF release = NoRelease
       THEN LET r == get_current_release(events)
            IN  IF r.raised
                THEN pc' = "raised" /\ exc' = r.exc /\ release' = release
                ELSE pc' = "get_build_info" /\ exc' = exc /\ release' = r.value
       ELSE pc' = "get_build_info" /\ exc' = exc /\ release' = release
    /\ UNCHANGED <<inputs, mount, disk, locals, trace, fmt>>

\* Lines 761-787: '/'.join of the download URL (a TypeError when
\* bundle_name is None) and the paths.
BuildPaths ==
    /\ pc = "located"
    /\ IF bundle_name = None
       THEN pc' = "raised" /\ exc' = "TypeError"
       ELSE pc' = "check_local" /\ exc' = exc
    /\ UNCHANGED <<inputs, mount, release, disk, locals, trace, fmt>>

\* Line 795: the test that the local installation is up to date.
IsUpToDate_Equal(release_, build, version) ==
    release_ # NoRelease /\ version = format_buildID(build)

IsUpToDate(release_, build, version) ==
    release_ # NoRelease /\ Contains(version, format_buildID(build))

\* Line 798: main returns when the installation is up to date.
AfterUpToDate_FallThrough == "download"

AfterUpToDate == "done"

\* Lines 802-805: without a local installation main goes on to the download.
AfterAbsent_Uninstall == "uninstall"

AfterAbsent == "download"

\* Lines 789-803, up to the call of uninstall: the state of the local
\* installation.  get_local_build_version (lines 539-543) opens version.txt
\* and fails when the directory has none.
CheckLocalInstallation ==
    /\ pc = "check_local"
    /\ IF ~install_dir.exists
       THEN /\ local_state' = "Absent"
            /\ pc' = AfterAbsent
            /\ UNCHANGED <<local_version, exc>>
       ELSE IF ~install_dir.has_manifest
       THEN /\ pc' = "raised"
            /\ exc' = "FileNotFoundError"
            /\ UNCHANGED <<local_version, local_state>>
       ELSE /\ local_version' = install_dir.manifest
            /\ exc' = exc
            /\ IF IsUpToDate(release, latest_build, install_dir.manifest)
               THEN local_state' = "UpToDate" /\ pc' = AfterUpToDate
               ELSE local_state' = "Stale" /\ pc' = "uninstall"
    /\ UNCHANGED <<inputs, mount, release, disk, builds_list, idx, latest_build,
                   bundle_name, trace, fmt>>

\* shutil.rmtree(installation_dir), line 737.
RmTree_Keep(dir) == dir

RmTree(dir) == AbsentDir

\* Lines 723-737.  On Windows the uninstaller runs first (a missing
\* uninstaller makes subprocess.run fail) and may remove the directory
\* itself; a directory still there is removed with shutil.rmtree, which can
\* fail and then leaves what it had not yet removed.
Uninstall ==
    /\ pc = "uninstall"
    /\ trace' = Append(trace, Ev("uninstall", latest_build))
    /\ \E outcome \in {"by_uninstaller", "by_rmtree", "no_uninstaller",
                       "rmtree_failed", "rmtree_failed_midway"} :
          \/ /\ outcome = "by_uninstaller"
             /\ sys_platform = "win32" /\ install_dir.exists
             /\ install_dir' = AbsentDir
             /\ pc' = "download"
             /\ exc' = exc
          \/ /\ outcome = "by_rmtree"
             /\ install_dir' = IF install_dir.exists THEN RmTree(install_dir)
                               ELSE install_dir
             /\ pc' = "download"
             /\ exc' = exc
          \/ /\ outcome = "no_uninstaller"
             /\ sys_platform = "win32"
             /\ install_dir' = install_dir
             /\ pc' = "raised"
             /\ exc' = "FileNotFoundError"
          \/ /\ outcome = "rmtree_failed"
             /\ install_dir.exists
             /\ install_dir' = install_dir
             /\ pc' = "raised"
             /\ exc' = "OSError"
          \/ /\ outcome = "rmtree_failed_midway"
             /\ install_dir.exists /\ install_dir.has_manifest
             /\ install_dir' = [install_dir EXCEPT !.has_manifest = FALSE,
                                                   !.manifest = <<>>]
             /\ pc' = "raised"
             /\ exc' = "OSError"
    /\ UNCHANGED <<inputs, mount, release, bundle_file, license_dir, locals, fmt>>

raise_for_status_Skipped(ok, next) == next

\* resp.raise_for_status(), line 259: an HTTPError unless the status is a
\* success.
raise_for_status(ok, next) == IF ok THEN next ELSE "raised"

\* Lines 238-275 and 805-808: the file at the target path is removed, then
\* the artifact is requested and streamed to it.
DownloadFile ==
    /\ pc = "download"
    /\ trace' = Append(trace, Ev("download_file", latest_build))
    /\ \E outcome \in {"ok", "status_error", "dropped"} :
          \/ /\ outcome = "ok"
             /\ bundle_file' = "complete"
             /\ pc' = IF download_only THEN "done" ELSE "install"
             /\ exc' = exc
          \/ /\ outcome = "status_error"
             /\ bundle_file' = "none"
             /\ pc' = raise_for_status(FALSE, "install")
             /\ exc' = "HTTPError"
          \/ /\ outcome = "dropped"
             /\ bundle_file' = "partial"
             /\ pc' = "raised"
             /\ exc' = "ConnectionError"
    /\ UNCHANGED <<inputs, mount, release, install_dir, license_dir, locals, fmt>>

\* The text of version.txt in an installation of the build: "Build " and
\* the build number without leading zeros (see the comment of line 391).
RECURSIVE Decimal(_)
Decimal(n) ==
    IF n < 10 THEN <<Digits[n + 1]>>
    ELSE Decimal(n \div 10) \o <<Digits[(n % 10) + 1]>>

VersionText(build) ==
    <<"B", "u", "i", "l", "d", " ">> \o Decimal(BuildNum(build))

check_call_Ignored(rc, next) == next

\* subprocess.check_call, lines 580 and 622: CalledProcessError unless the
\* process exits with 0.
check_call(rc, next) == IF rc = 0 THEN next ELSE "raised"

\* Lines 546-563: a clean install_tmpdir inside the installation directory
\* (created with its parents), the extraction, the platform's installer,
\* and the removal of install_tmpdir once the installer succeeded.
InstallSchrodingerBundle ==
    /\ pc = "install"
    /\ trace' = Append(trace, Ev("install_schrodinger_bundle", latest_build))
    /\ \E outcome \in {"ok", "extract_failed", "installer_failed"} :
          LET tmp == install_dir.files \cup {"install_tmpdir"}
          IN  \/ /\ outcome = "ok"
                 /\ install_dir' = [exists |-> TRUE,
                                    files |-> (tmp \cup {"payload"}) \ {"install_tmpdir"},
                                    has_manifest |-> TRUE,
                                    manifest |-> VersionText(latest_build)]
                 /\ pc' = "hosts"
                 /\ exc' = exc
              \/ /\ outcome = "extract_failed"
                 /\ install_dir' = [install_dir EXCEPT !.exists = TRUE, !.files = tmp]
                 /\ pc' = "raised"
                 /\ exc' = "ExtractError"
              \/ /\ outcome = "installer_failed"
                 /\ install_dir' = [install_dir EXCEPT !.exists = TRUE,
                                                       !.files = tmp \cup {"payload"}]
                 /\ pc' = check_call(1, "hosts")
                 /\ exc' = "CalledProcessError"
    /\ UNCHANGED <<inputs, mount, release, bundle_file, license_dir, locals, fmt>>

\* Lines 662-691.
InstallSchrodingerHosts ==
    /\ pc = "hosts"
    /\ trace' = Append(trace, Ev("install_schrodinger_hosts", latest_build))
    /\ \E ok \in BOOLEAN :
          IF ok
          THEN /\ install_dir' = [install_dir EXCEPT
                                     !.files = @ \cup {"schrodinger.hosts"}]
               /\ pc' = "license"
               /\ exc' = exc
          ELSE /\ install_dir' = install_dir
               /\ pc' = "raised"
               /\ exc' = "HTTPError"
    /\ UNCHANGED <<inputs, mount, release, bundle_file, license_dir, locals, fmt>>

create_clean_dirs_Keep(dir) == [dir EXCEPT !.exists = TRUE]

\* Lines 221-235: a directory already there is removed with all it holds,
\* then the directory is created.
create_clean_dirs(dir) == [exists |-> TRUE, files |-> {}]

\* datetime.now().strftime("%Y-%m-%d") on the day of the run.
current_date == "2026-11-04"

\* Line 651.
lic_filename == "80_client_" \o current_date \o "_pdx-lic-lv01.lic"

\* Line 654.  The text of a license file is a sequence of words, blanks and
\* line feeds.
lic_contents ==
    <<<<"SERVER", " ", "pdx-lic-lv01", " ", "ANY", " ", "27008", "\n">>,
      <<"USE_SERVER">>>>

\* file.writelines(lines): the lines one after the other, nothing added.
RECURSIVE WriteLines(_)
WriteLines(lines) ==
    IF Len(lines) = 0 THEN <<>> ELSE Head(lines) \o WriteLines(Tail(lines))

\* Lines 642-659: the stub is written in the working directory and moved
\* into the emptied directory licenses.
InstallLicenseStub ==
    /\ pc = "license"
    /\ trace' = Append(trace, Ev("install_license_stub", latest_build))
    /\ license_dir' =
          [create_clean_dirs(license_dir) EXCEPT
              !.files = @ \cup {[name |-> lic_filename,
                                 text |-> WriteLines(lic_contents)]}]
    /\ install_dir' = [install_dir EXCEPT !.files = @ \cup {"licenses"}]
    /\ pc' = "done"
    /\ UNCHANGED <<inputs, mount, release, bundle_file, locals, exc, fmt>>

\* The text of a version.txt around the version it records.
ManifestText(version) == <<"v", " ">> \o version \o <<"\n">>

Manifests ==
    {ManifestText(<<"B", "u", "i", "l", "d", " ", "3">>),
     ManifestText(<<"B", "u", "i", "l", "d", " ", "0", "3">>),
     ManifestText(<<"B", "u", "i", "l", "d", " ", "4", "9">>),
     ManifestText(<<"B", "u", "i", "l", "d", " ", "1", "4", "2", "0">>)}

\* The installation directory before the run: absent, an earlier
\* installation, or what a failed earlier run left (no version.txt).
LocalDirs ==
    {AbsentDir}
    \cup {[exists |-> TRUE, files |-> {"old_payload"}, has_manifest |-> TRUE,
           manifest |-> m] : m \in Manifests}
    \cup {[exists |-> TRUE, files |-> {"install_tmpdir"}, has_manifest |-> FALSE,
           manifest |-> <<>>]}

Init ==
    /\ sys_platform \in Platforms
    /\ bundle_type \in BundleTypes
    /\ knime \in BOOLEAN
    /\ ArgsAccepted(sys_platform, bundle_type, knime)
    /\ download_only \in BOOLEAN
    /\ release \in {NoRelease, Release20242}
    /\ argv_release = (IF release = NoRelease THEN <<>> ELSE <<Typed242>>)
    /\ events \in {<<>>, <<Summary242>>}
    /\ release # NoRelease => events = <<Summary242>>
    /\ listing \in DistinctSeqs(BuildIds, MaxMainBuilds)
    /\ pages \in [Range(listing) -> PageKinds]
    /\ install_dir \in LocalDirs
    /\ bundle_file \in {"none", "previous"}
    /\ license_dir = NoLicenses
    /\ InitLocals
    /\ pc = "start"
    /\ fmt_in = <<>>
    /\ fmt_out = <<>>

Next ==
    \/ ResolveRelease
    \/ GetBuildInfoFetch
    \/ GetBuildInfoScan
    \/ BuildPaths
    \/ CheckLocalInstallation
    \/ Uninstall
    \/ DownloadFile
    \/ InstallSchrodingerBundle
    \/ InstallSchrodingerHosts
    \/ InstallLicenseStub

Spec == Init /\ [][Next]_vars

\* ------------------------------------------- format_buildID on its own

AllBuildIds == {MkBuildId(a, b, c) : a, b, c \in 0..9}

FormatBuildID ==
    /\ pc = "format"
    /\ fmt_out' = format_buildID(fmt_in)
    /\ pc' = "formatted"
    /\ UNCHANGED <<inputs, mount, release, disk, locals, exc, trace, fmt_in>>

InitFormat ==
    /\ sys_platform = "linux"
    /\ bundle_type = "academic"
    /\ knime = FALSE
    /\ download_only = FALSE
    /\ release = Release20242
    /\ argv_release = <<Typed242>>
    /\ events = <<>>
    /\ listing = <<>>
    /\ pages = <<>>
    /\ install_dir = AbsentDir
    /\ bundle_file = "none"
    /\ license_dir = NoLicenses
    /\ InitLocals
    /\ pc = "format"
    /\ fmt_in \in AllBuildIds
    /\ fmt_out = <<>>

NextFormat == FormatBuildID

SpecFormat == InitFormat /\ [][NextFormat]_vars

\* -------------------------------------------- extract_bundle on its own

\* A command run through subprocess and its exit status.
Cmd(cmd, rc) == [cmd |-> cmd, rc |-> rc]

\* [\d\w]
WordChars ==
    DigitSet \cup
    {"a", "b", "c", "d", "e", "f", "g", "h", "i", "j", "k", "l", "m", "n", "o",
     "p", "q", "r", "s", "t", "u", "v", "w", "x", "y", "z", "A", "B", "C", "D",
     "E", "F", "G", "H", "I", "J", "K", "L", "M", "N", "O", "P", "Q", "R", "S",
     "T", "U", "V", "W", "X", "Y", "Z", "_"}

VolumesDmg == <<"/", "V", "o", "l", "u", "m", "e", "s", "/", "d", "m", "g", ".">>

\* The length of the longest run of word characters at the head of s.
RECURSIVE WordRun(_)
WordRun(s) ==
    IF Len(s) > 0 /\ Head(s) \in WordChars THEN 1 + WordRun(Tail(s)) ELSE 0

\* re.search(r'/Volumes/dmg\.[\d\w]+', output): the leftmost match, taken
\* as long as it goes (match.group(0)), or None.
SearchMountPoint(output) ==
    LET n == Len(VolumesDmg)
        At(i) == /\ i + n <= Len(output)
                 /\ SubSeq(output, i, i + n - 1) = VolumesDmg
                 /\ output[i + n] \in WordChars
    IN  IF \E i \in 1..Len(output) : At(i)
        THEN LET i == CHOOSE k \in 1..Len(output) :
                         At(k) /\ \A j \in 1..(k - 1) : ~At(j)
                 run == WordRun(SubSeq(output, i + n, Len(output)))
             IN  SubSeq(output, i, i + n + run - 1)
        ELSE None

\* What hdiutil attach can do: the volume it mounted and what it printed.
AttachResults ==
    LET Dev == <<"/", "d", "e", "v", "/", "d", "i", "s", "k", "2", " ">>
        VolA == VolumesDmg \o <<"a", "1", "B">>
        VolB == VolumesDmg \o <<"Z", "_", "9">>
    IN  {[volume |-> VolA, output |-> Dev \o VolA \o <<"\n">>],
         [volume |-> VolB, output |-> VolB],
         [volume |-> VolA, output |-> <<>>],
         [volume |-> VolB, output |-> Dev \o VolumesDmg \o <<"\n">>]}

AfterWithBody_NoFinally(raised) == IF raised THEN "raised" ELSE "detach"

\* Lines 717-720: the with body runs inside try/finally, so the detach comes
\* next whether or not the body raised.
AfterWithBody(raised) == "detach"

\* In this part install_dir stands for extract_bundle's destination and
\* bundle_name for the base name of bundle_path.
Extracted(files) == [install_dir EXCEPT !.files = files]

\* Lines 357-362 and 370-371: zip and tar archives are unpacked into a
\* subdirectory of the destination; any other platform but darwin is refused.
ExtractArchive ==
    /\ pc = "extract_bundle"
    /\ sys_platform # "darwin"
    /\ IF sys_platform \in {"win32", "linux"}
       THEN \E outcome \in {"ok", "bad_archive"} :
               IF outcome = "ok"
               THEN /\ install_dir' = Extracted({"subdir"})
                    /\ pc' = "move_files"
                    /\ exc' = NoExc
               ELSE /\ install_dir' \in {install_dir, Extracted({"subdir"})}
                    /\ pc' = "raised"
                    /\ exc' = "ReadError"
       ELSE /\ pc' = "raised"
            /\ exc' = "RuntimeError"
            /\ UNCHANGED install_dir
    /\ UNCHANGED <<inputs, mount, release, bundle_file, license_dir, locals, trace,
                   fmt>>

\* Lines 374-383: the unpacked files are moved up into the destination and
\* the subdirectory is removed, also when a move fails.
MoveFiles ==
    /\ pc = "move_files"
    /\ \E outcome \in {"ok", "move_failed"} :
          IF outcome = "ok"
          THEN /\ install_dir' = Extracted({"payload"})
               /\ pc' = "returned"
               /\ exc' = NoExc
          ELSE /\ install_dir' \in {Extracted({}), Extracted({"payload"})}
               /\ pc' = "raised"
               /\ exc' = "shutil.Error"
    /\ UNCHANGED <<inputs, mount, release, bundle_file, license_dir, locals, trace,
                   fmt>>

\* Lines 363 and 696-712: entering the with statement runs mount_dmg up to
\* its yield: hdiutil attach, then the search for the mount point.
MountDmg ==
    /\ pc = "extract_bundle"
    /\ sys_platform = "darwin"
    /\ \/ /\ trace' = Append(trace, Cmd("hdiutil attach", 1))
          /\ pc' = "raised"
          /\ exc' = "CalledProcessError"
          /\ UNCHANGED mount
       \/ \E r \in AttachResults :
            LET match == SearchMountPoint(r.output)
            IN  /\ trace' = Append(trace, Cmd("hdiutil attach", 0))
                /\ mounted' = mounted \cup {r.volume}
                /\ IF match = None
                   THEN /\ pc' = "raised"
                        /\ exc' = "RuntimeError"
                        /\ UNCHANGED mount_point
                   ELSE /\ pc' = "xar"
                        /\ exc' = NoExc
                        /\ mount_point' = match
    /\ UNCHANGED <<inputs, release, disk, locals, fmt>>

\* Lines 364-368: the body of the with statement.  A failure of xar is in
\* flight (exc) until mount_dmg's finally clause has run.
Xar ==
    /\ pc = "xar"
    /\ \E rc \in {0, 1} :
          /\ trace' = Append(trace, Cmd("xar", rc))
          /\ exc' = (IF rc = 0 THEN NoExc ELSE "CalledProcessError")
          /\ pc' = AfterWithBody(rc # 0)
          /\ install_dir' \in (IF rc = 0 THEN {Extracted({"payload"})}
                               ELSE {install_dir, Extracted({"payload"})})
    /\ UNCHANGED <<inputs, mount, release, bundle_file, license_dir, locals, fmt>>

\* Lines 718-720 and 369: hdiutil detach; its own failure replaces whatever
\* was in flight.
Detach ==
    /\ pc = "detach"
    /\ \E rc \in {0, 1} :
          /\ trace' = Append(trace, Cmd("hdiutil detach", rc))
          /\ IF rc = 0
             THEN /\ mounted' = mounted \ {mount_point}
                  /\ pc' = (IF exc = NoExc THEN "returned" ELSE "raised")
                  /\ UNCHANGED exc
             ELSE /\ pc' = "raised"
                  /\ exc' = "CalledProcessError"
                  /\ UNCHANGED mounted
    /\ UNCHANGED <<inputs, mount_point, release, disk, locals, fmt>>

ExtractPlatforms == Platforms \cup {"freebsd"}

\* The bundles of one catalog section, as downloaded.
ExtractBundles ==
    {l.href[Len(l.href)] : l \in Range(InstallerLinks("General", "General"))}

InitExtract ==
    /\ sys_platform \in ExtractPlatforms
    /\ bundle_type = "general"
    /\ knime = FALSE
    /\ download_only = FALSE
    /\ release = Release20242
    /\ argv_release = <<Typed242>>
    /\ events = <<>>
    /\ listing = <<>>
    /\ pages = <<>>
    /\ install_dir = [AbsentDir EXCEPT !.exists = TRUE]
    /\ bundle_file = "complete"
    /\ license_dir = NoLicenses
    /\ builds_list = <<>>
    /\ idx = 0
    /\ latest_build = Unbound
    /\ bundle_name \in ExtractBundles
    /\ local_version = <<>>
    /\ local_state = "unchecked"
    /\ exc = NoExc
    /\ trace = <<>>
    /\ mounted = {}
    /\ mount_point = Unbound
    /\ pc = "extract_bundle"
    /\ fmt_in = <<>>
    /\ fmt_out = <<>>

NextExtract == ExtractArchive \/ MoveFiles \/ MountDmg \/ Xar \/ Detach

SpecExtract == InitExtract /\ [][NextExtract]_vars

\* ------------------------------------------------ parse_args on its own

\* Longest --release value explored.
MaxReleaseLen == 5

\* The characters a --release value is made of here: digits inside and
\* outside of each class of the pattern, the dash and a line feed.
ReleaseChars == {"0", "2", "5", "-", "\n"}

ReleaseValues == UNION {[1..n -> ReleaseChars] : n \in 0..MaxReleaseLen}

\* re.search('^[2][0-9]-[1-4]$', value): without re.MULTILINE ^ matches at
\* the start only and $ at the end or just before a line feed that ends the
\* string.
SearchRelease(value) ==
    /\ Len(value) \in {4, 5}
    /\ value[1] = "2"
    /\ value[2] \in DigitSet
    /\ value[3] = "-"
    /\ value[4] \in {"1", "2", "3", "4"}
    /\ Len(value) = 5 => value[5] = "\n"

\* Lines 185 and 203-215: the checks parse_args makes on the values this
\* model carries, in the order of the code.  parser.error exits the process.
ParseArgs ==
    /\ pc = "parse_args"
    /\ LET given == argv_release # <<>> /\ Len(argv_release[1]) > 0
       IN  IF given /\ ~SearchRelease(argv_release[1])
           THEN /\ pc' = "exit"
                /\ exc' = "SystemExit: Incorrect release given"
                /\ UNCHANGED release
           ELSE /\ release' = (IF given THEN <<"2", "0">> \o argv_release[1]
                               ELSE NoRelease)
                /\ IF ArgsAccepted(sys_platform, bundle_type, knime)
                   THEN pc' = "start" /\ exc' = NoExc
                   ELSE pc' = "exit" /\ exc' = "SystemExit: -knime"
    /\ UNCHANGED <<inputs, mount, disk, locals, trace, fmt>>

InitArgs ==
    /\ sys_platform \in Platforms
    /\ bundle_type \in BundleTypes
    /\ knime \in BOOLEAN
    /\ download_only = FALSE
    /\ argv_release \in {<<>>} \cup {<<v>> : v \in ReleaseValues}
    /\ release = NoRelease
    /\ events = <<Summary242>>
    /\ listing = <<>>
    /\ pages = <<>>
    /\ install_dir = AbsentDir
    /\ bundle_file = "none"
    /\ license_dir = NoLicenses
    /\ InitLocals
    /\ pc = "parse_args"
    /\ fmt_in = <<>>
    /\ fmt_out = <<>>

NextArgs == ParseArgs

SpecArgs == InitArgs /\ [][NextArgs]_vars

\* ---------------------------------------- install_license_stub on its own

\* What the directory licenses can hold when install_license_stub starts:
\* nothing (absent or empty), the license the installer shipped, or the stub
\* of an earlier run of the same day.
LicenseDirs ==
    LET Stock == [name |-> "90_stock.lic", text |-> <<"FEATURE", "\n">>]
        Stub  == [name |-> lic_filename,
                  text |-> <<"SERVER", " ", "old-lic", " ", "ANY", " ", "27000",
                             "\n", "USE_SERVER", "\n">>]
    IN  {NoLicenses} \cup
        {[exists |-> TRUE, files |-> F] : F \in SUBSET {Stock, Stub}}

InitLicense ==
    /\ sys_platform \in Platforms
    /\ bundle_type = "general"
    /\ knime = FALSE
    /\ download_only = FALSE
    /\ release = Release20242
    /\ argv_release = <<Typed242>>
    /\ events = <<>>
    /\ listing = <<>>
    /\ pages = <<>>
    /\ license_dir \in LicenseDirs
    /\ latest_build \in BuildIds
    /\ \E hosts \in SUBSET {"schrodinger.hosts"} :
          install_dir =
              [exists |-> TRUE,
               files |-> {"payload"} \cup hosts \cup
                         (IF license_dir.exists THEN {"licenses"} ELSE {}),
               has_manifest |-> TRUE,
               manifest |-> VersionText(latest_build)]
    /\ bundle_file = "complete"
    /\ builds_list = <<>>
    /\ idx = 0
    /\ bundle_name = None
    /\ local_version = <<>>
    /\ local_state = "unchecked"
    /\ exc = NoExc
    /\ trace = <<>>
    /\ mounted = {}
    /\ mount_point = Unbound
    /\ pc = "license"
    /\ fmt_in = <<>>
    /\ fmt_out = <<>>

NextLicense == InstallLicenseStub

SpecLicense == InitLicense /\ [][NextLicense]_vars

\* =============================================================== claims

\* The operations of a run that act on the disk or post to the server, in
\* the order they ran.
RECURSIVE WithoutOp(_, _)
WithoutOp(t, op) ==
    IF Len(t) = 0 THEN <<>>
    ELSE IF Head(t).op = op THEN WithoutOp(Tail(t), op)
    ELSE <<Head(t)>> \o WithoutOp(Tail(t), op)

Effects == WithoutOp(trace, "get_bundle_name")

\* The builds whose page get_bundle_name was asked for, in order.
RECURSIVE OnlyOp(_, _)
OnlyOp(t, op) ==
    IF Len(t) = 0 THEN <<>>
    ELSE IF Head(t).op = op THEN <<Head(t).build>> \o OnlyOp(Tail(t), op)
    ELSE OnlyOp(Tail(t), op)

Queried == OnlyOp(trace, "get_bundle_name")

Resolved(b) ==
    get_bundle_name(pages[b], bundle_type, PlatformOf(sys_platform), knime)

\* The listed builds for which get_bundle_name returns a file name.
WithBundle == {b \in Range(listing) : ~Resolved(b).raised /\ Truthy(Resolved(b).value)}

Newest(S) == CHOOSE b \in S : \A c \in S : BuildNum(c) <= BuildNum(b)

\* C1: whatever the catalog, get_build_info returns the build with the
\* greatest numeric suffix among the builds for which get_bundle_name
\* returns a file name, with that file name.
C1_ReturnsNewestBuildWithBundle ==
    (pc = "located" /\ WithBundle # {}) =>
        /\ latest_build = Newest(WithBundle)
        /\ bundle_name = Resolved(Newest(WithBundle)).value

\* C2: whatever the raw order of the listing, get_build_info asks the
\* bundle resolver for builds in strictly descending order of their
\* numeric suffix.
C2_QueriesStrictlyDescending ==
    \A i, j \in 1..Len(Queried) :
        i < j => BuildNum(Queried[i]) > BuildNum(Queried[j])

\* The page is fetchable and has no section header for the bundle type.
NoSectionFor(page, bundle) ==
    /\ page.status = "ok"
    /\ \A i \in 1..Len(page.sections) :
          page.sections[i].h3 # HeaderOf(bundle) \o " Installers"

\* The listed builds older than b.
OlderThan(b) == {c \in Range(listing) : BuildNum(c) < BuildNum(b)}

\* get_bundle_name, asked last for a build without the section, returned
\* None and raised nothing.
NoSectionReturnsNone ==
    (Queried # <<>> /\ NoSectionFor(pages[Queried[Len(Queried)]], bundle_type)) =>
        /\ exc = NoExc
        /\ bundle_name = None
        /\ latest_build = Queried[Len(Queried)]

\* C9: for a fetchable page without a section header matching the bundle
\* type get_bundle_name returns None without raising, and the locator
\* continues with the next older build.
C9_NoSectionContinuesWithNextOlder ==
    (Queried # <<>> /\ NoSectionFor(pages[Queried[Len(Queried)]], bundle_type)) =>
        LET b == Queried[Len(Queried)]
        IN  /\ exc = NoExc
            /\ bundle_name = None
            /\ OlderThan(b) # {} =>
                  /\ pc = "scan"
                  /\ builds_list[idx] = Newest(OlderThan(b))

\* The links of the bundle type's section of the page of build b whose text
\* holds the wanted marker, in page order.
MatchingLinks(b) ==
    LET secs == pages[b].sections
        wanted == IF bundle_type = "desres" THEN "Academic Installers"
                  ELSE CapitalizeBundle(bundle_type) \o " Installers"
        marker == IF bundle_type = "desres" THEN "DESRES"
                  ELSE PlatformOf(sys_platform)
        Marked(link) == marker \in Range(link.text)
        at == {i \in 1..Len(secs) : secs[i].h3 = wanted}
        first == CHOOSE i \in at : \A j \in at : i <= j
    IN  IF pages[b].status # "ok" \/ at = {} THEN <<>>
        ELSE SelectSeq(secs[first].ul, Marked)

\* The file name of a link: its href after the last "/".
FileOf(link) == link.href[Len(link.href)]

MacWithoutKnime ==
    sys_platform = "darwin" /\ ~knime /\ bundle_type # "academic"

\* C10: on MacOSX without KNIME and with a bundle type other than academic,
\* two matching links make get_bundle_name return the file name of the
\* second; in every other combination of platform, flag and bundle type it
\* returns the file name of the first matching link.
C10_SecondLinkOnMacWithoutKnime ==
    (latest_build # Unbound /\ Queried[Len(Queried)] = latest_build) =>
        LET m == MatchingLinks(latest_build)
        IN  /\ (MacWithoutKnime /\ Len(m) = 2) => bundle_name = FileOf(m[2])
            /\ (~MacWithoutKnime /\ Len(m) >= 1) => bundle_name = FileOf(m[1])

C10_Witness ==
    /\ pc = "located"
    /\ MacWithoutKnime
    /\ Len(MatchingLinks(latest_build)) = 2
    /\ bundle_name = FileOf(MatchingLinks(latest_build)[2])
    /\ bundle_name # FileOf(MatchingLinks(latest_build)[1])

\* No listed build has a matching artifact: every get_bundle_name call
\* returns None (an empty listing included).
NoArtifact ==
    \A b \in Range(listing) : ~Resolved(b).raised /\ Resolved(b).value = None

\* C7: when no build of the release has a matching artifact, the locator
\* returns NotFound and the workflow ends there as a reported outcome, not
\* as an exception: no uninstall, no download, no installer run.
C7_NotFoundEndsWorkflowCleanly ==
    (NoArtifact /\ release # NoRelease) =>
        /\ exc = NoExc
        /\ pc \notin {"check_local", "uninstall", "download", "install",
                      "hosts", "license"}
        /\ Effects = <<>>

\* C3: a stale installation is removed entirely before the download and
\* the installer run; the installer never writes into a directory that
\* still holds the stale installation.
C3_StaleRemovedBeforeInstall ==
    /\ local_state = "Stale" =>
          /\ Effects = <<>> => pc = "uninstall"
          /\ Effects # <<>> => Effects[1].op = "uninstall"
          /\ pc \in {"download", "install"} => ~install_dir.exists
    /\ ~(/\ "old_payload" \in install_dir.files
         /\ install_dir.files \cap {"install_tmpdir", "payload",
                                    "schrodinger.hosts", "licenses"} # {})

C3_Witness ==
    /\ local_state = "Stale"
    /\ pc = "hosts"
    /\ install_dir.files = {"payload"}
    /\ Len(Effects) = 3

\* The manifest holds the display form of the located build.
ManifestHasDisplayForm ==
    /\ install_dir.exists
    /\ install_dir.has_manifest
    /\ LET display == format_buildID(latest_build)
       IN  \E i \in 0..(Len(install_dir.manifest) - Len(display)) :
              \A k \in 1..Len(display) : install_dir.manifest[i + k] = display[k]

\* C4: when the manifest of the local installation contains the located
\* build's display form, main returns successfully and nothing else runs:
\* the installation and the previously downloaded installer file stay as
\* they are, nothing is uninstalled, downloaded or installed, and no step
\* of the run before the check has touched the disk either.
C4_UpToDateNoSideEffects ==
    [][/\ (pc = "check_local" /\ ManifestHasDisplayForm) =>
             /\ pc' = "done"
             /\ exc' = NoExc
             /\ local_state' = "UpToDate"
       /\ local_state' \in {"unchecked", "UpToDate"} =>
             /\ install_dir' = install_dir
             /\ bundle_file' = bundle_file
             /\ WithoutOp(trace', "get_bundle_name") = <<>>
       /\ local_state # "UpToDate"]_vars

C4_Witness ==
    /\ local_state = "UpToDate"
    /\ pc = "done"
    /\ bundle_file = "previous"
    /\ ManifestHasDisplayForm

\* C5: without a local installation directory the workflow goes straight
\* to the download and then the installation; uninstall is never invoked.
C5_AbsentSkipsUninstall ==
    local_state = "Absent" =>
        /\ \A i \in 1..Len(Effects) : Effects[i].op # "uninstall"
        /\ Effects = <<>> => pc = "download"
        /\ Len(Effects) >= 1 => Effects[1].op = "download_file"
        /\ Len(Effects) >= 2 => Effects[2].op = "install_schrodinger_bundle"

C5_Witness ==
    /\ local_state = "Absent"
    /\ pc = "hosts"
    /\ "payload" \in install_dir.files

\* C8: with an installation directory and a readable manifest, the
\* workflow takes the UpToDate branch exactly when format_buildID of the
\* located build occurs in the manifest contents, and the Stale branch
\* otherwise.
C8_UpToDateIffDisplayFormInManifest ==
    /\ local_state \in {"UpToDate", "Stale"} =>
          LET display == format_buildID(latest_build)
          IN  local_state = "UpToDate" <=>
                 \E i \in 0..(Len(local_version) - Len(display)) :
                    \A k \in 1..Len(display) : local_version[i + k] = display[k]
    /\ (pc = "check_local" /\ install_dir.exists /\ install_dir.has_manifest) =>
          local_state = "unchecked"
    /\ (local_state = "UpToDate" => pc = "done")
    /\ (local_state = "Stale" /\ Effects = <<>>) => pc = "uninstall"

C8_Witness ==
    /\ local_state = "UpToDate"
    /\ Len(local_version) > Len(format_buildID(latest_build))
    /\ latest_build = MkBuildId(0, 4, 9)

\* C6: format_buildID of build-NNN is "Build " followed by the number
\* without its leading zeros.
C6_LeadingZerosStripped ==
    pc = "formatted" => fmt_out = VersionText(fmt_in)

\* C11: for desres get_bundle_name looks in the "Academic Installers"
\* section and keeps only the links whose text contains DESRES; for every
\* other bundle type it looks in the section named after the capitalized
\* bundle type and keeps only the links whose text contains the platform
\* marker.  What it returns is the file of one of those links, and None
\* when there is none.
C11_SectionAndFilterByBundleType ==
    (latest_build # Unbound /\ Queried[Len(Queried)] = latest_build) =>
        LET m == MatchingLinks(latest_build)
        IN  /\ m = <<>> <=> bundle_name = None
            /\ bundle_name # None =>
                  \E i \in 1..Len(m) : bundle_name = FileOf(m[i])

C11_Witness ==
    /\ pc = "located"
    /\ bundle_type = "desres"
    /\ sys_platform = "linux"
    /\ bundle_name = "DESRES_Linux.tar.gz"
    /\ \E i \in 1..Len(pages[latest_build].sections) :
          /\ pages[latest_build].sections[i].h3 = "Academic Installers"
          /\ \E k \in 1..Len(pages[latest_build].sections[i].ul) :
                /\ "DESRES" \in Range(pages[latest_build].sections[i].ul[k].text)
                /\ FileOf(pages[latest_build].sections[i].ul[k]) = bundle_name

\* The positions of the command cmd in the log of commands run.
Ran(cmd) == {i \in 1..Len(trace) : trace[i].cmd = cmd}

\* C12: if xar raises while the disk image is mounted, hdiutil detach has
\* been executed by the time the exception reaches the caller of
\* extract_bundle.
C12_DetachBeforeXarFailurePropagates ==
    (pc = "raised" /\ \E i \in Ran("xar") : trace[i].rc # 0) =>
        \E i \in Ran("xar") : \E j \in Ran("hdiutil detach") : i < j

C12_Witness ==
    /\ pc = "raised"
    /\ exc = "CalledProcessError"
    /\ Len(trace) = 3
    /\ trace[1] = Cmd("hdiutil attach", 0)
    /\ trace[2] = Cmd("xar", 1)
    /\ trace[3] = Cmd("hdiutil detach", 0)
    /\ mounted = {}

\* C19: every hdiutil attach that succeeded is followed by an hdiutil detach
\* on every path out of mount_dmg, the path on which the mount point cannot
\* be parsed from the output included.
C19_EveryMountIsUnmounted ==
    (pc \in {"raised", "returned"}) =>
        \A i \in Ran("hdiutil attach") :
            trace[i].rc = 0 => \E j \in Ran("hdiutil detach") : i < j

\* YY-Q with YY in 20..29 and Q in 1..4.
IsYYQ(value) ==
    /\ Len(value) = 4
    /\ value[1] \in DigitSet /\ value[2] \in DigitSet
    /\ PyInt(SubSeq(value, 1, 2)) \in 20..29
    /\ value[3] = "-"
    /\ value[4] \in DigitSet /\ PyInt(<<value[4]>>) \in 1..4

\* C13: a release given on the command line is accepted if and only if it is
\* YY-Q with YY in 20..29 and Q in 1..4; an accepted value becomes "20"
\* followed by the value, and every other value ends parse_args with the
\* input-format error, nothing having been fetched or written.
C13_ReleaseAcceptedIffYYQ ==
    (pc # "parse_args" /\ argv_release # <<>>) =>
        LET value == argv_release[1]
        IN  IF IsYYQ(value)
            THEN /\ exc # "SystemExit: Incorrect release given"
                 /\ release = <<"2", "0">> \o value
            ELSE /\ pc = "exit"
                 /\ exc = "SystemExit: Incorrect release given"
                 /\ release = NoRelease
                 /\ trace = <<>>

\* C14: without a release on the command line, an empty list of calendar
\* events makes get_current_release report that no release was found and
\* return the no-release value without raising; a list that is not empty
\* makes it return the release read from the first event.
C14_EmptyCalendarReturnsNoRelease ==
    (argv_release = <<>> /\ pc # "start") =>
        IF events = <<>>
        THEN exc = NoExc /\ release = NoRelease
        ELSE release = <<"2", "0">> \o SubSeq(events[1], 1, 4)

LastEffect == Effects[Len(Effects)]

StepsAfterDownload ==
    {"install_schrodinger_bundle", "install_schrodinger_hosts",
     "install_license_stub"}

\* C15: when the platform installer exits non-zero the failure goes up to
\* the top level, the hosts-file and license-stub steps never run, and
\* nothing is rolled back: install_tmpdir stays and an installation that the
\* uninstall removed is not put back.
C15_InstallerFailureNoRollback ==
    exc = "CalledProcessError" =>
        /\ pc = "raised"
        /\ LastEffect.op = "install_schrodinger_bundle"
        /\ install_dir.files \cap {"schrodinger.hosts", "licenses"} = {}
        /\ "install_tmpdir" \in install_dir.files
        /\ local_state = "Stale" =>
              /\ "old_payload" \notin install_dir.files
              /\ ~install_dir.has_manifest

C15_Witness ==
    /\ exc = "CalledProcessError"
    /\ pc = "raised"
    /\ local_state = "Stale"
    /\ Len(Effects) = 3
    /\ Effects[1].op = "uninstall"
    /\ install_dir.files = {"install_tmpdir", "payload"}

\* C16: when the artifact request is answered with a status that is not a
\* success, download_file fails with the transfer error, the workflow stops
\* with no installer, hosts-file or license-stub step run, and the target
\* path stays as the download left it (the earlier file removed, nothing
\* written).
C16_StatusErrorAbortsWorkflow ==
    (exc = "HTTPError" /\ Effects # <<>> /\ LastEffect.op = "download_file") =>
        /\ pc = "raised"
        /\ \A i \in 1..Len(Effects) : Effects[i].op \notin StepsAfterDownload
        /\ install_dir.files \cap {"payload", "schrodinger.hosts", "licenses"} = {}
        /\ bundle_file = "none"

C16_Witness ==
    /\ exc = "HTTPError"
    /\ pc = "raised"
    /\ ~download_only
    /\ Len(Effects) = 1
    /\ Effects[1].op = "download_file"
    /\ bundle_file = "none"

\* The lines of a text as file.readlines() gives them: each one up to and
\* with its line feed, the last one possibly without.
RECURSIVE ReadLines(_, _)
ReadLines(text, line) ==
    IF Len(text) = 0 THEN (IF Len(line) = 0 THEN <<>> ELSE <<line>>)
    ELSE IF Head(text) = "\n"
         THEN <<Append(line, "\n")>> \o ReadLines(Tail(text), <<>>)
         ELSE ReadLines(Tail(text), Append(line, Head(text)))

\* A line without the line feed that ends it.
Chomp(line) ==
    IF Len(line) > 0 /\ line[Len(line)] = "\n"
    THEN SubSeq(line, 1, Len(line) - 1) ELSE line

\* C17: after install_license_stub the directory licenses of the
\* installation holds exactly one license file, and reading it back gives
\* exactly two lines: a SERVER directive with the license server and the
\* port, then a USE_SERVER directive.
C17_LicenseStubRoundTrip ==
    (trace # <<>> /\ trace[Len(trace)].op = "install_license_stub") =>
        /\ license_dir.exists
        /\ "licenses" \in install_dir.files
        /\ Cardinality(license_dir.files) = 1
        /\ \A f \in license_dir.files :
              LET lines == ReadLines(f.text, <<>>)
              IN  /\ Len(lines) = 2
                  /\ Chomp(lines[1]) =
                        <<"SERVER", " ", "pdx-lic-lv01", " ", "ANY", " ", "27008">>
                  /\ Chomp(lines[2]) = <<"USE_SERVER">>

C17_Witness ==
    /\ pc = "done"
    /\ trace # <<>>
    /\ trace[Len(trace)].op = "install_license_stub"
    /\ Cardinality(license_dir.files) = 1
    /\ \E f \in license_dir.files :
          /\ f.name = "80_client_2026-11-04_pdx-lic-lv01.lic"
          /\ Len(ReadLines(f.text, <<>>)) = 2

\* C18: with --download_only an installation directory that is there stays
\* as it was, whatever version it records: nothing is uninstalled, no
\* installer, hosts-file or license-stub step runs, and only the download
\* target is written.
C18_DownloadOnlyKeepsInstallation ==
    download_only =>
        /\ \A i \in 1..Len(Effects) : Effects[i].op = "download_file"
        /\ local_state \in {"Stale", "UpToDate"} =>
              /\ install_dir.exists
              /\ install_dir.has_manifest
              /\ install_dir.manifest = local_version
              /\ install_dir.files = {"old_payload"}
        /\ license_dir = NoLicenses

\* C20: for every per-build page that could be fetched, whatever the number
\* of matching links, get_bundle_name returns a file name or None and does
\* not raise; with MacOSX, no KNIME, a bundle type other than academic and
\* exactly one matching link too, so that the scan of get_build_info is not
\* ended by an exception.
C20_NeverRaisesOnFetchedPage ==
    (Queried # <<>> /\ pages[Queried[Len(Queried)]].status = "ok") =>
        /\ pc # "raised"
        /\ exc = NoExc
        /\ ~Resolved(Queried[Len(Queried)]).raised

\* C21: the scan of get_build_info goes through the builds one after the
\* other and stops at the first build for which get_bundle_name returns a
\* file name: no page is requested for a build older than the one returned,
\* and no build's page is requested more than once.
C21_ScanStopsAtFirstSuccess ==
    /\ \A i, j \in 1..Len(Queried) : i # j => Queried[i] # Queried[j]
    /\ \A i \in 1..Len(Queried) : Queried[i] = builds_list[i]
    /\ (pc = "located" /\ bundle_name # None) =>
          /\ Queried[Len(Queried)] = latest_build
          /\ \A i \in 1..Len(Queried) :
                BuildNum(Queried[i]) >= BuildNum(latest_build)

\* C22: the decision on the local installation is total: when the install
\* path is a directory the check ends in the UpToDate or the Stale branch and
\* does not end the workflow with an error, also when version.txt is missing
\* or cannot be read.
C22_LocalDecisionTotal ==
    [][(pc = "check_local" /\ install_dir.exists) =>
          /\ local_state' \in {"UpToDate", "Stale"}
          /\ pc' # "raised"
          /\ exc' = NoExc]_vars

====
